---- MODULE Spec2Model ----
(***************************************************************************)
(* GigFlow: the request handlers of the users, projects, sample-work,      *)
(* category and skill endpoints, over the relational store they share.     *)
(*                                                                         *)
(* The store is one table per model (id -> row).  Primary keys are         *)
(* auto-increment: an id is handed out once and never reused.              *)
(* Every handler is one step, except sign-up, whose two writes             *)
(* (serializer.save() and user.save()) are two statements of the store     *)
(* and so two steps.  resp is the last request served: the handler, the    *)
(* caller, the id of the query string, the body handed to the serializer   *)
(* and the status answered.                                                *)
(***************************************************************************)
EXTENDS Integers, FiniteSets, Sequences, TLC

VARIABLES users, projects, sample_works, categories, skills,
          next_id, pending, resp

vars == <<users, projects, sample_works, categories, skills, next_id, pending, resp>>

----------------------------------------------------------------------------
\* Bounds of the model: the highest primary key each table hands out.
MaxUsers == 4
MaxProjects == 2
MaxSampleWorks == 2
MaxCategories == 2
MaxSkills == 2

\* A null foreign key, an anonymous caller, a query parameter that is not sent.
None == 0
\* A body field of a foreign key that the request does not carry.
Absent == -1
\* A primary key that no row has.
NoRow == -2
\* A null char field, and a char field that the request does not carry.
Null == "null"
AbsentStr == "absent"

\* User.USER_TYPE_CHOICES
USER_TYPE_CHOICES == {"freelancer", "employer"}

Passwords == {"pw1", "pw2"}
ProjectNames == {"Logo", "App"}
SampleNames == {"Portfolio", "Shop"}

UserIds == 1..MaxUsers
ProjectIds == 1..MaxProjects
SampleWorkIds == 1..MaxSampleWorks
CategoryIds == 1..MaxCategories
SkillIds == 1..MaxSkills

\* AbstractUser.set_password: the stored value is the salted hash, a string
\* that names its algorithm and is no submitted password.
make_password(raw) == "pbkdf2_sha256$" \o raw

\* A table without the rows of the ids in gone.
Without(table, gone) == [i \in DOMAIN table \ gone |-> table[i]]

\* request.user of an authenticated request: a user whose sign-up is over.
\* (None is the anonymous caller.)
Callers == {None} \cup (DOMAIN users \ DOMAIN pending)

is_authenticated(caller) == caller # None

NoData == [none |-> TRUE]

\* The request served and its answer.  id is the id of the query string (or
\* of the URL), data the body the serializer saved (NoData when nothing was
\* saved), errors the serializer.errors of the answer, pk the primary key of
\* the row the request created.  status 0: no answer yet.
Response(op, caller, id, data, errors, status, pk) ==
    [op |-> op, caller |-> caller, id |-> id, data |-> data, errors |-> errors,
     status |-> status, pk |-> pk]

----------------------------------------------------------------------------
\* The request bodies.  A body names a row by its primary key: the key of
\* one of the rows, or a key that no row has.
Keys(table) == DOMAIN table \cup {NoRow}

UserData == [password : Passwords \cup {AbsentStr},
             user_type : USER_TYPE_CHOICES \cup {Null, AbsentStr},
             category : Keys(categories) \cup {None, Absent},
             phone_number : {AbsentStr}]

\* The bodies of an update of a user that sets a new password, a user_type,
\* both or neither.
UserPutData == [password : {"pw2", AbsentStr},
                user_type : {"employer", AbsentStr},
                category : {Absent},
                phone_number : {AbsentStr}]

\* The bodies that carry a phone_number (Null: sent as null).
Phones == {"0912", "0935"}
UserPhoneData == [password : {"pw1"},
                  user_type : {AbsentStr},
                  category : {Absent},
                  phone_number : Phones \cup {Null}]

ProjectData == [user : Keys(users) \cup {Absent},
                name : ProjectNames \cup {AbsentStr},
                category : Keys(categories) \cup {Absent}]

SampleWorkData == [user : Keys(users) \cup {Absent},
                   name : SampleNames \cup {AbsentStr}]

\* The bodies that differ in the rows they name and in nothing else: a
\* sign-up with no category or with one that no row has, an update that
\* sets the category to null or to one that no row has.
UserKeyData == [password : {"pw1"},
                user_type : {AbsentStr},
                category : {NoRow, Absent},
                phone_number : {AbsentStr}]

UserKeyPutData == [password : {AbsentStr},
                   user_type : {AbsentStr},
                   category : {NoRow, None},
                   phone_number : {AbsentStr}]

ProjectKeyData == [user : Keys(users), name : {"Logo"}, category : Keys(categories)]

SampleWorkKeyData == [user : Keys(users), name : {"Portfolio"}]

CategoryNames == {"Design"}
CategoryData == [name : CategoryNames \cup {AbsentStr}]

SkillData == [category : Keys(categories) \cup {Absent}]

\* A foreign key of a body: sent (on create: required) and the key of a row.
BadKey(value, table, partial) ==
    IF value = Absent THEN ~partial ELSE value \notin DOMAIN table

\* serializer.errors: the fields of the body that do not validate.  A field
\* that is sent must be well formed; on create (partial = FALSE) a field
\* without a default is required.
UserSerializer_errors(data, partial) ==
    {f \in {"category"} : data.category \notin {None, Absent} \cup DOMAIN categories}
    \cup {f \in {"password"} : ~partial /\ data.password = AbsentStr}

ProjectSerializer_errors(data, partial) ==
    {f \in {"user"} : BadKey(data.user, users, partial)}
    \cup {f \in {"name"} : ~partial /\ data.name = AbsentStr}
    \cup {f \in {"category"} : BadKey(data.category, categories, partial)}

SampleWorkSerializer_errors(data, partial) ==
    {f \in {"user"} : BadKey(data.user, users, partial)}
    \cup {f \in {"name"} : ~partial /\ data.name = AbsentStr}

SkillSerializer_errors(data) ==
    {f \in {"category"} : BadKey(data.category, categories, FALSE)}

CategorySerializer_errors(data) ==
    {f \in {"name"} : data.name = AbsentStr}

\* serializer.is_valid()
UserSerializer_is_valid(data, partial) == UserSerializer_errors(data, partial) = {}
ProjectSerializer_is_valid(data, partial) == ProjectSerializer_errors(data, partial) = {}
SampleWorkSerializer_is_valid(data, partial) == SampleWorkSerializer_errors(data, partial) = {}
SkillSerializer_is_valid(data) == SkillSerializer_errors(data) = {}
CategorySerializer_is_valid(data) == CategorySerializer_errors(data) = {}

----------------------------------------------------------------------------
\* The rows a store in use holds.  Account 1 is the staff account, an
\* employer; account 2 is a freelancer; account 3 signed up without a
\* user_type.  Each of the first two accounts owns (from before its
\* user_type was chosen) a project and a sample work.
SeedUser(id, category) ==
    [user_type |-> CASE id = 1 -> "employer" [] id = 2 -> "freelancer" [] OTHER -> Null,
     category |-> category,
     password |-> make_password("pw1"),
     phone_number |-> Null,
     is_staff |-> (id = 1)]

SeedProject(id) ==
    [user |-> id, name |-> IF id = 1 THEN "Logo" ELSE "App", category |-> 1]

SeedSampleWork(id) ==
    [user |-> 3 - id, name |-> IF id = 1 THEN "Portfolio" ELSE "Shop"]

\* A store in use: the accounts 1..nu (category[id] the category of account
\* id), one category with one skill, the projects 1..np and the sample works
\* 1..ns; no request is being served.
Seeded(nu, np, ns, category) ==
    /\ users = [id \in 1..nu |-> SeedUser(id, category[id])]
    /\ projects = [id \in 1..np |-> SeedProject(id)]
    /\ sample_works = [id \in 1..ns |-> SeedSampleWork(id)]
    /\ categories = (1 :> [name |-> "Design"])
    /\ skills = (1 :> [category |-> 1])
    /\ next_id = [user |-> nu + 1, project |-> np + 1, sample_work |-> ns + 1,
                  category |-> 2, skill |-> 2]
    /\ pending = <<>>
    /\ resp = Response("none", None, None, NoData, {}, 0, None)

NoCategory == [id \in UserIds |-> None]

\* Three accounts, two projects, two sample works.
Init == Seeded(3, 2, 2, NoCategory)

\* The stores the views are explored from.
InitSignUp == Seeded(2, 2, 2, NoCategory)
InitAccounts == Seeded(2, 2, 2, NoCategory)
InitProjects == Seeded(3, 1, 1, NoCategory)
InitSampleWork == Seeded(3, 1, 1, NoCategory)
InitCategory == \E category \in [UserIds -> {None, 1}] : Seeded(2, 2, 2, category)
InitCategoryAccess == Seeded(2, 1, 1, NoCategory)
InitPhone == Seeded(3, 1, 1, NoCategory)
InitPut == Seeded(2, 1, 1, NoCategory)
InitStore == Seeded(2, 1, 1, [id \in UserIds |-> IF id = 2 THEN 1 ELSE None])
InitViewSession == Seeded(3, 1, 1, NoCategory)

\* The stores the list of projects is explored on: one account, every
\* category, and any projects of that account, in the first or in the last
\* category.
InitProjectsList ==
    \E n \in 0..MaxProjects :
        \E rows \in [1..n -> [user : {1}, name : ProjectNames, category : {1, MaxCategories}]] :
            /\ users = [id \in {1} |-> SeedUser(id, None)]
            /\ projects = rows
            /\ sample_works = <<>>
            /\ categories = [c \in CategoryIds |-> [name |-> "Design"]]
            /\ skills = <<>>
            /\ next_id = [user |-> 2, project |-> n + 1, sample_work |-> 1,
                          category |-> MaxCategories + 1, skill |-> 1]
            /\ pending = <<>>
            /\ resp = Response("none", None, None, NoData, {}, 0, None)

----------------------------------------------------------------------------
\* A body field applied to a row's field: a field the body does not carry
\* leaves the old value (partial update), or gives the default (create).
Supplied(value, old) == IF value \in {Absent} THEN old ELSE value
SuppliedStr(value, old) == IF value = AbsentStr THEN old ELSE value

\* Mutant of SampleWorksOfUser: SampleWork.user without the cascade.
SampleWorksOfUser_NoCascade(u) == {}

\* Mutant of ProjectsOfUser: Projects.user without the cascade.
ProjectsOfUser_NoCascade(u) == {}

\* on_delete = CASCADE of Projects.user and SampleWork.user.
ProjectsOfUser(u) == {p \in DOMAIN projects : projects[p].user = u}
SampleWorksOfUser(u) == {s \in DOMAIN sample_works : sample_works[s].user = u}

----------------------------------------------------------------------------
\* UserView

\* Another row holds the phone number: what unique=True of User.phone_number
\* forbids.  pk is the row written (None: a row to insert).
phone_number_taken(value, pk) ==
    /\ value \notin {Null, AbsentStr}
    /\ \E u \in DOMAIN users \ {pk} : users[u].phone_number = value

\* The UniqueValidator the serializer gives phone_number: is_valid() asks the
\* store whether another row holds the value.
UserSerializer_unique_errors(data, pk) ==
    {f \in {"phone_number"} : phone_number_taken(data.phone_number, pk)}

\* Mutant of IntegrityError: phone_number without unique=True.
IntegrityError_NoConstraint(data, pk) == FALSE

\* The unique index of the table, checked by the store when the row is
\* written: the INSERT or UPDATE raises IntegrityError.
IntegrityError(data, pk) == phone_number_taken(data.phone_number, pk)

\* is_valid() and save() are two statements: another request may write
\* between them (raced), and then the validator has passed on rows that are
\* no longer the rows of the store.
Raced(data) == IF data.phone_number \in {Null, AbsentStr} THEN {FALSE} ELSE BOOLEAN

\* UserView.get: the page holds the caller's own row and no other.
UserGet_status(caller) == IF ~is_authenticated(caller) THEN 401 ELSE 200

UserGet(caller) ==
    LET status == UserGet_status(caller)
    IN  /\ resp' = Response("UserGet", caller, None,
                            IF status = 200
                            THEN [results |-> {id \in DOMAIN users : id = caller}]
                            ELSE NoData,
                            {}, status, None)
        /\ UNCHANGED <<users, projects, sample_works, categories, skills, next_id, pending>>

\* UserView.post up to serializer.save(): the row is inserted with the
\* validated fields as they were sent.
\* Mutant of UserPost_early: sign-up open to every caller.
UserPost_early_Open(caller) == 0

UserPost_early(caller) == IF is_authenticated(caller) THEN 403 ELSE 0

UserPost_status(caller, data, raced) ==
    IF UserPost_early(caller) # 0 THEN UserPost_early(caller)
    ELSE IF ~UserSerializer_is_valid(data, FALSE) THEN 400
    ELSE IF ~raced /\ UserSerializer_unique_errors(data, None) # {} THEN 400
    ELSE IF IntegrityError(data, None) THEN 500
    ELSE 0

\* ModelSerializer.create: the row as inserted by serializer.save().
UserSerializer_create(data) ==
    [user_type |-> SuppliedStr(data.user_type, Null),
     category |-> Supplied(data.category, None),
     password |-> data.password,
     phone_number |-> SuppliedStr(data.phone_number, Null),
     is_staff |-> FALSE]

UserPost(caller, data) ==
    \E raced \in Raced(data) :
    LET status == UserPost_status(caller, data, raced)
        id == next_id.user
    IN  /\ status = 0 => id <= MaxUsers
        /\ IF status = 0
           THEN /\ users' = users @@ (id :> UserSerializer_create(data))
                /\ pending' = pending @@ (id :> data.password)
                /\ next_id' = [next_id EXCEPT !.user = id + 1]
                /\ resp' = Response("UserPost", caller, None, data, {}, 0, id)
           ELSE /\ UNCHANGED <<users, pending, next_id>>
                /\ resp' = Response("UserPost", caller, None, NoData,
                                    IF status = 400
                                    THEN UserSerializer_errors(data, FALSE)
                                         \cup UserSerializer_unique_errors(data, None)
                                    ELSE {},
                                    status, None)
        /\ UNCHANGED <<projects, sample_works, categories, skills>>

\* UserView.post from user.set_password(...) on: the password is hashed, the
\* row saved again and 201 answered.
UserPostSetPassword(id) ==
    /\ id \in DOMAIN pending
    /\ users' = [users EXCEPT ![id].password = make_password(pending[id])]
    /\ pending' = Without(pending, {id})
    /\ resp' = Response("UserPost", None, None, [password |-> pending[id]], {}, 201, id)
    /\ UNCHANGED <<projects, sample_works, categories, skills, next_id>>

\* UserView.put
\* Mutant of UserPut_early: the id is looked up and not compared to the caller's.
UserPut_early_NoOwnerCheck(caller, user_id) ==
    IF ~is_authenticated(caller) THEN 401
    ELSE IF user_id = None THEN 400
    ELSE IF user_id \notin DOMAIN users THEN 404
    ELSE 0

\* The answers given before request.data is read; 0 when there is none.
UserPut_early(caller, user_id) ==
    IF ~is_authenticated(caller) THEN 401
    ELSE IF user_id = None THEN 400
    ELSE IF user_id \notin DOMAIN users THEN 404
    ELSE IF user_id # caller THEN 403
    ELSE 0

UserPut_status(caller, user_id, data, raced) ==
    IF UserPut_early(caller, user_id) # 0 THEN UserPut_early(caller, user_id)
    ELSE IF ~UserSerializer_is_valid(data, TRUE) THEN 400
    ELSE IF ~raced /\ UserSerializer_unique_errors(data, caller) # {} THEN 400
    ELSE IF IntegrityError(data, caller) THEN 500
    ELSE 200

\* ModelSerializer.update: every field sent is assigned as sent.
UserSerializer_update(row, data) ==
    [row EXCEPT !.user_type = SuppliedStr(data.user_type, @),
                !.category = Supplied(data.category, @),
                !.password = SuppliedStr(data.password, @),
                !.phone_number = SuppliedStr(data.phone_number, @)]

UserPut(caller, user_id, data) ==
    \E raced \in Raced(data) :
    LET status == UserPut_status(caller, user_id, data, raced)
    IN  /\ users' = IF status = 200
                    THEN [users EXCEPT ![caller] = UserSerializer_update(@, data)]
                    ELSE users
        /\ resp' = Response("UserPut", caller, user_id,
                            IF status = 200 THEN data ELSE NoData,
                            IF UserPut_early(caller, user_id) = 0 /\ status # 500
                            THEN UserSerializer_errors(data, TRUE)
                                 \cup UserSerializer_unique_errors(data, caller)
                            ELSE {},
                            status, None)
        /\ UNCHANGED <<projects, sample_works, categories, skills, next_id, pending>>

\* Mutant of UserDelete_status: the id is looked up and not compared to the caller's.
UserDelete_status_NoOwnerCheck(caller, user_id) ==
    IF ~is_authenticated(caller) THEN 403
    ELSE IF user_id = None THEN 400
    ELSE IF user_id \notin DOMAIN users THEN 404
    ELSE 204

\* UserView.delete
UserDelete_status(caller, user_id) ==
    IF ~is_authenticated(caller) THEN 403
    ELSE IF user_id = None THEN 400
    ELSE IF user_id \notin DOMAIN users THEN 404
    ELSE IF user_id # caller THEN 403
    ELSE 204

UserDelete(caller, user_id) ==
    LET status == UserDelete_status(caller, user_id)
    IN  /\ IF status = 204
           THEN /\ users' = Without(users, {caller})
                /\ projects' = Without(projects, ProjectsOfUser(caller))
                /\ sample_works' = Without(sample_works, SampleWorksOfUser(caller))
           ELSE UNCHANGED <<users, projects, sample_works>>
        /\ resp' = Response("UserDelete", caller, user_id, NoData, {}, status, None)
        /\ UNCHANGED <<categories, skills, next_id, pending>>

----------------------------------------------------------------------------
\* ProjectsView

\* ProjectsView.post
ProjectsPost_early(caller) ==
    IF ~is_authenticated(caller) THEN 401
    ELSE IF users[caller].user_type = "freelancer" THEN 403
    ELSE 0

ProjectsPost_status(caller, data) ==
    IF ProjectsPost_early(caller) # 0 THEN ProjectsPost_early(caller)
    ELSE IF ProjectSerializer_is_valid(data, FALSE) THEN 201
    ELSE 400

\* Mutant of ProjectSerializer_create: serializer.save() without user=user.
ProjectSerializer_create_BodyUser(caller, data) ==
    [user |-> data.user, name |-> data.name, category |-> data.category]

\* serializer.save(user=user): the keyword argument replaces the validated
\* user of the body.
ProjectSerializer_create(caller, data) ==
    [user |-> caller, name |-> data.name, category |-> data.category]

ProjectsPost(caller, data) ==
    LET status == ProjectsPost_status(caller, data)
        id == next_id.project
    IN  /\ status = 201 => id <= MaxProjects
        /\ IF status = 201
           THEN /\ projects' = projects @@ (id :> ProjectSerializer_create(caller, data))
                /\ next_id' = [next_id EXCEPT !.project = id + 1]
           ELSE UNCHANGED <<projects, next_id>>
        /\ resp' = Response("ProjectsPost", caller, None,
                            IF status = 201 THEN data ELSE NoData,
                            IF ProjectsPost_early(caller) = 0
                            THEN ProjectSerializer_errors(data, FALSE) ELSE {},
                            status,
                            IF status = 201 THEN id ELSE None)
        /\ UNCHANGED <<users, sample_works, categories, skills, pending>>

\* Mutant of ProjectsLookup: the lookup by id alone, Projects.objects.get(id=project_id).
ProjectsLookup_AnyOwner(caller, project_id) == project_id \in DOMAIN projects

\* Projects.objects.get(id=project_id, user=user) finds a row.
ProjectsLookup(caller, project_id) ==
    /\ project_id \in DOMAIN projects
    /\ projects[project_id].user = caller

\* Mutant of ProjectsDelete_status: the role checked last, after the id and the lookup.
ProjectsDelete_status_RoleLast(caller, project_id) ==
    IF ~is_authenticated(caller) THEN 401
    ELSE IF project_id = None THEN 400
    ELSE IF ~ProjectsLookup(caller, project_id) THEN 404
    ELSE IF users[caller].user_type # "employer" THEN 403
    ELSE 204

\* ProjectsView.delete
ProjectsDelete_status(caller, project_id) ==
    IF ~is_authenticated(caller) THEN 401
    ELSE IF users[caller].user_type # "employer" THEN 403
    ELSE IF project_id = None THEN 400
    ELSE IF ~ProjectsLookup(caller, project_id) THEN 404
    ELSE 204

ProjectsDelete(caller, project_id) ==
    LET status == ProjectsDelete_status(caller, project_id)
    IN  /\ projects' = IF status = 204 THEN Without(projects, {project_id}) ELSE projects
        /\ resp' = Response("ProjectsDelete", caller, project_id, NoData, {}, status, None)
        /\ UNCHANGED <<users, sample_works, categories, skills, next_id, pending>>

\* ProjectsView.put
ProjectsPut_early(caller, project_id) ==
    IF ~is_authenticated(caller) THEN 401
    ELSE IF ~ProjectsLookup(caller, project_id) THEN 404
    ELSE 0

ProjectsPut_status(caller, project_id, data) ==
    IF ProjectsPut_early(caller, project_id) # 0 THEN ProjectsPut_early(caller, project_id)
    ELSE IF ProjectSerializer_is_valid(data, TRUE) THEN 200
    ELSE 400

\* Mutant of ProjectSerializer_update: the row overwritten with the body,
\* the fields it does not carry included.
ProjectSerializer_update_Overwrite(row, data) ==
    [user |-> data.user, name |-> data.name, category |-> data.category]

\* ModelSerializer.update: every field sent is assigned, user included.
ProjectSerializer_update(row, data) ==
    [row EXCEPT !.user = Supplied(data.user, @),
                !.name = SuppliedStr(data.name, @),
                !.category = Supplied(data.category, @)]

\* Mutant of ProjectsPut: the row saved before the body is validated.
ProjectsPut_SaveInvalid(caller, project_id, data) ==
    LET status == ProjectsPut_status(caller, project_id, data)
    IN  /\ projects' = IF ProjectsPut_early(caller, project_id) = 0
                       THEN [projects EXCEPT ![project_id] = ProjectSerializer_update(@, data)]
                       ELSE projects
        /\ resp' = Response("ProjectsPut", caller, project_id,
                            IF status = 200 THEN data ELSE NoData,
                            IF ProjectsPut_early(caller, project_id) = 0
                            THEN ProjectSerializer_errors(data, TRUE) ELSE {},
                            status, None)
        /\ UNCHANGED <<users, sample_works, categories, skills, next_id, pending>>

ProjectsPut(caller, project_id, data) ==
    LET status == ProjectsPut_status(caller, project_id, data)
    IN  /\ projects' = IF status = 200
                       THEN [projects EXCEPT ![project_id] = ProjectSerializer_update(@, data)]
                       ELSE projects
        /\ resp' = Response("ProjectsPut", caller, project_id,
                            IF status = 200 THEN data ELSE NoData,
                            IF ProjectsPut_early(caller, project_id) = 0
                            THEN ProjectSerializer_errors(data, TRUE) ELSE {},
                            status, None)
        /\ UNCHANGED <<users, sample_works, categories, skills, next_id, pending>>

\* The text of a query parameter or of a name, character by character.
Chars(text) ==
    CASE text = "Logo" -> <<"L", "o", "g", "o">>
      [] text = "App" -> <<"A", "p", "p">>
      [] text = "logo" -> <<"l", "o", "g", "o">>
      [] text = "pp" -> <<"p", "p">>
      [] text = "" -> <<>>

\* The lower case of a character.
lower(ch) ==
    CASE ch = "L" -> "l"
      [] ch = "A" -> "a"
      [] OTHER -> ch

\* The lookup icontains: needle occurs in value, case not told apart.
icontains(value, needle) ==
    LET v == Chars(value)
        n == Chars(needle)
    IN  \E start \in 0..(Len(v) - Len(n)) :
            \A i \in 1..Len(n) : lower(v[start + i]) = lower(n[i])

\* The values of the query parameters search and name (AbsentStr: not sent).
QueryTexts == {"logo", "App", "pp"}

\* A value of the query parameter category that is not a number.
NotANumber == -3

\* Mutant of ProjectsFilter_name: the lookup exact.
ProjectsFilter_name_Exact(queryset, name) ==
    IF name \in {AbsentStr, ""} THEN queryset
    ELSE {p \in queryset : projects[p].name = name}

\* ProjectsFilter.name: CharFilter(field_name="name", lookup_expr="icontains");
\* an empty value is skipped.
ProjectsFilter_name(queryset, name) ==
    IF name \in {AbsentStr, ""} THEN queryset
    ELSE {p \in queryset : icontains(projects[p].name, name)}

\* ProjectsFilter.category: CharFilter(field_name="category"), the lookup
\* exact on the primary key of the category.
ProjectsFilter_category(queryset, category) ==
    IF category = None THEN queryset
    ELSE {p \in queryset : projects[p].category = category}

\* ProjectsView.get: the queryset handed to the paginator (the store holds
\* fewer rows than a page does).  A category that is not a number makes the
\* lookup on the key raise ValueError, an unhandled exception: 500.
ProjectsGet_queryset(search, name, category) ==
    LET all == DOMAIN projects
        searched == IF search \in {AbsentStr, ""} THEN all
                    ELSE {p \in all : icontains(projects[p].name, search)}
    IN  ProjectsFilter_category(ProjectsFilter_name(searched, name), category)

ProjectsGet_status(category) == IF category = NotANumber THEN 500 ELSE 200

ProjectsGet(caller, search, name, category) ==
    LET status == ProjectsGet_status(category)
    IN  /\ resp' = Response("ProjectsGet", caller, None,
                            [search |-> search, name |-> name, category |-> category,
                             results |-> IF status = 200
                                         THEN ProjectsGet_queryset(search, name, category)
                                         ELSE {}],
                            {}, status, None)
        /\ UNCHANGED <<users, projects, sample_works, categories, skills, next_id, pending>>

----------------------------------------------------------------------------
\* SampleWorkView

\* Mutant of SampleWorkPost_early: employers refused, as post of /projects/
\* refuses freelancers.
SampleWorkPost_early_RejectEmployers(caller) ==
    IF ~is_authenticated(caller) THEN 401
    ELSE IF users[caller].user_type = "employer" THEN 403
    ELSE 0

\* SampleWorkView.post
SampleWorkPost_early(caller) ==
    IF ~is_authenticated(caller) THEN 401
    ELSE IF users[caller].user_type # "freelancer" THEN 403
    ELSE 0

SampleWorkPost_status(caller, data) ==
    IF SampleWorkPost_early(caller) # 0 THEN SampleWorkPost_early(caller)
    ELSE IF SampleWorkSerializer_is_valid(data, FALSE) THEN 201
    ELSE 400

SampleWorkSerializer_create(caller, data) ==
    [user |-> caller, name |-> data.name]

SampleWorkPost(caller, data) ==
    LET status == SampleWorkPost_status(caller, data)
        id == next_id.sample_work
    IN  /\ status = 201 => id <= MaxSampleWorks
        /\ IF status = 201
           THEN /\ sample_works' = sample_works @@ (id :> SampleWorkSerializer_create(caller, data))
                /\ next_id' = [next_id EXCEPT !.sample_work = id + 1]
           ELSE UNCHANGED <<sample_works, next_id>>
        /\ resp' = Response("SampleWorkPost", caller, None,
                            IF status = 201 THEN data ELSE NoData,
                            IF SampleWorkPost_early(caller) = 0
                            THEN SampleWorkSerializer_errors(data, FALSE) ELSE {},
                            status,
                            IF status = 201 THEN id ELSE None)
        /\ UNCHANGED <<users, projects, categories, skills, pending>>

\* SampleWorkView.delete: SampleWork.objects.get(id=samplework_id, user=user)
SampleWorkDelete_status(caller, samplework_id) ==
    IF ~is_authenticated(caller) THEN 401
    ELSE IF users[caller].user_type # "freelancer" THEN 403
    ELSE IF ~(/\ samplework_id \in DOMAIN sample_works
              /\ sample_works[samplework_id].user = caller) THEN 404
    ELSE 204

SampleWorkDelete(caller, samplework_id) ==
    LET status == SampleWorkDelete_status(caller, samplework_id)
    IN  /\ sample_works' = IF status = 204 THEN Without(sample_works, {samplework_id})
                           ELSE sample_works
        /\ resp' = Response("SampleWorkDelete", caller, samplework_id, NoData, {}, status, None)
        /\ UNCHANGED <<users, projects, categories, skills, next_id, pending>>

\* SampleWorkView.put: SampleWork.objects.get(id=samplework_id), then the
\* owner is compared.
\* Mutant of SampleWorkPut_early: the owner folded into the lookup, as in delete.
SampleWorkPut_early_OwnerInLookup(caller, samplework_id) ==
    IF ~is_authenticated(caller) THEN 401
    ELSE IF samplework_id = None THEN 400
    ELSE IF ~(/\ samplework_id \in DOMAIN sample_works
              /\ sample_works[samplework_id].user = caller) THEN 404
    ELSE 0

SampleWorkPut_early(caller, samplework_id) ==
    IF ~is_authenticated(caller) THEN 401
    ELSE IF samplework_id = None THEN 400
    ELSE IF samplework_id \notin DOMAIN sample_works THEN 404
    ELSE IF sample_works[samplework_id].user # caller THEN 403
    ELSE 0

SampleWorkPut_status(caller, samplework_id, data) ==
    IF SampleWorkPut_early(caller, samplework_id) # 0
    THEN SampleWorkPut_early(caller, samplework_id)
    ELSE IF SampleWorkSerializer_is_valid(data, TRUE) THEN 200
    ELSE 400

SampleWorkSerializer_update(row, data) ==
    [row EXCEPT !.user = Supplied(data.user, @),
                !.name = SuppliedStr(data.name, @)]

SampleWorkPut(caller, samplework_id, data) ==
    LET status == SampleWorkPut_status(caller, samplework_id, data)
    IN  /\ sample_works' = IF status = 200
                           THEN [sample_works EXCEPT ![samplework_id] =
                                     SampleWorkSerializer_update(@, data)]
                           ELSE sample_works
        /\ resp' = Response("SampleWorkPut", caller, samplework_id,
                            IF status = 200 THEN data ELSE NoData,
                            IF SampleWorkPut_early(caller, samplework_id) = 0
                            THEN SampleWorkSerializer_errors(data, TRUE) ELSE {},
                            status, None)
        /\ UNCHANGED <<users, projects, categories, skills, next_id, pending>>

----------------------------------------------------------------------------
\* CategoryView and SkillView (ModelViewSet under IsAdminOrReadOnly)

\* IsAdminOrReadOnly.has_permission for a method that is not in SAFE_METHODS.
IsAdminOrReadOnly_write(caller) == is_authenticated(caller) /\ users[caller].is_staff

\* rest_framework.permissions.SAFE_METHODS
SAFE_METHODS == {"GET", "HEAD", "OPTIONS"}

\* Mutant of IsAdminOrReadOnly_has_permission: IsAuthenticatedOrReadOnly.
IsAdminOrReadOnly_has_permission_Authenticated(method, caller) ==
    method \in SAFE_METHODS \/ is_authenticated(caller)

\* IsAdminOrReadOnly.has_permission
IsAdminOrReadOnly_has_permission(method, caller) ==
    IF method \in SAFE_METHODS THEN TRUE ELSE IsAdminOrReadOnly_write(caller)

\* APIView.permission_denied: 403 for a caller who is authenticated; for an
\* anonymous caller 401 or 403, as the authentication classes of the settings
\* decide (anon_status).
permission_denied(caller, anon_status) == IF is_authenticated(caller) THEN 403 ELSE anon_status

\* Mutant of ProjectsOfCategory: Projects.category without the cascade.
ProjectsOfCategory_NoCascade(c) == {}

\* Mutant of UsersOfCategory: User.category without PROTECT (SET_NULL leaves
\* nothing to protect).
UsersOfCategory_NoProtect(c) == {}

\* on_delete of the foreign keys to Category.
SkillsOfCategory(c) == {k \in DOMAIN skills : skills[k].category = c}
ProjectsOfCategory(c) == {p \in DOMAIN projects : projects[p].category = c}
UsersOfCategory(c) == {u \in DOMAIN users : users[u].category = c}

\* CategoryView.create
CategoryCreate_status(caller, data, anon_status) ==
    IF ~IsAdminOrReadOnly_has_permission("POST", caller) THEN permission_denied(caller, anon_status)
    ELSE IF CategorySerializer_is_valid(data) THEN 201
    ELSE 400

CategoryCreate(caller, data, anon_status) ==
    LET status == CategoryCreate_status(caller, data, anon_status)
        id == next_id.category
    IN  /\ status = 201 => id <= MaxCategories
        /\ IF status = 201
           THEN /\ categories' = categories @@ (id :> [name |-> data.name])
                /\ next_id' = [next_id EXCEPT !.category = id + 1]
           ELSE UNCHANGED <<categories, next_id>>
        /\ resp' = Response("CategoryCreate", caller, None,
                            IF status = 201 THEN data ELSE NoData,
                            IF status = 400 THEN CategorySerializer_errors(data) ELSE {},
                            status,
                            IF status = 201 THEN id ELSE None)
        /\ UNCHANGED <<users, projects, sample_works, skills, pending>>

\* CategoryView.destroy: the collector follows the foreign keys to the row
\* before anything is deleted; User.category is PROTECT and raises
\* ProtectedError (an unhandled exception: 500), Skill.category and
\* Projects.category are CASCADE.
CategoryDestroy_status(caller, pk, anon_status) ==
    IF ~IsAdminOrReadOnly_has_permission("DELETE", caller) THEN permission_denied(caller, anon_status)
    ELSE IF pk \notin DOMAIN categories THEN 404
    ELSE IF UsersOfCategory(pk) # {} THEN 500
    ELSE 204

CategoryDestroy(caller, pk, anon_status) ==
    LET status == CategoryDestroy_status(caller, pk, anon_status)
    IN  /\ IF status = 204
           THEN /\ categories' = Without(categories, {pk})
                /\ skills' = Without(skills, SkillsOfCategory(pk))
                /\ projects' = Without(projects, ProjectsOfCategory(pk))
           ELSE UNCHANGED <<categories, skills, projects>>
        /\ resp' = Response("CategoryDestroy", caller, pk, NoData, {}, status, None)
        /\ UNCHANGED <<users, sample_works, next_id, pending>>

\* CategoryView.update (PUT) and partial_update (PATCH): get_object(), then
\* the serializer; created_at is not editable, name is the one field written.
CategoryUpdate_status(caller, pk, data, partial, anon_status) ==
    IF ~IsAdminOrReadOnly_has_permission(IF partial THEN "PATCH" ELSE "PUT", caller)
    THEN permission_denied(caller, anon_status)
    ELSE IF pk \notin DOMAIN categories THEN 404
    ELSE IF ~partial /\ data.name = AbsentStr THEN 400
    ELSE 200

CategoryUpdate(caller, pk, data, partial, anon_status) ==
    LET status == CategoryUpdate_status(caller, pk, data, partial, anon_status)
    IN  /\ categories' = IF status = 200
                         THEN [categories EXCEPT ![pk].name = SuppliedStr(data.name, @)]
                         ELSE categories
        /\ resp' = Response(IF partial THEN "CategoryPartialUpdate" ELSE "CategoryUpdate",
                            caller, pk,
                            IF status = 200 THEN data ELSE NoData,
                            IF status = 400 THEN {"name"} ELSE {},
                            status, None)
        /\ UNCHANGED <<users, projects, sample_works, skills, next_id, pending>>

\* CategoryView.list, retrieve and options: a request of a safe method.  pk
\* None is the list URL.  HEAD is served by the handler of GET; OPTIONS
\* answers the metadata of the view, whatever the pk.
CategoryRead_status(method, caller, pk, anon_status) ==
    IF ~IsAdminOrReadOnly_has_permission(method, caller)
    THEN permission_denied(caller, anon_status)
    ELSE IF method # "OPTIONS" /\ pk # None /\ pk \notin DOMAIN categories THEN 404
    ELSE 200

CategoryRead(method, caller, pk, anon_status) ==
    /\ resp' = Response("Category" \o method, caller, pk, NoData, {},
                        CategoryRead_status(method, caller, pk, anon_status), None)
    /\ UNCHANGED <<users, projects, sample_works, categories, skills, next_id, pending>>

\* SkillView.create
SkillCreate_status(caller, data, anon_status) ==
    IF ~IsAdminOrReadOnly_has_permission("POST", caller) THEN permission_denied(caller, anon_status)
    ELSE IF SkillSerializer_is_valid(data) THEN 201
    ELSE 400

SkillCreate(caller, data, anon_status) ==
    LET status == SkillCreate_status(caller, data, anon_status)
        id == next_id.skill
    IN  /\ status = 201 => id <= MaxSkills
        /\ IF status = 201
           THEN /\ skills' = skills @@ (id :> [category |-> data.category])
                /\ next_id' = [next_id EXCEPT !.skill = id + 1]
           ELSE UNCHANGED <<skills, next_id>>
        /\ resp' = Response("SkillCreate", caller, None,
                            IF status = 201 THEN data ELSE NoData,
                            IF status = 400 THEN SkillSerializer_errors(data) ELSE {},
                            status,
                            IF status = 201 THEN id ELSE None)
        /\ UNCHANGED <<users, projects, sample_works, categories, pending>>

\* SkillView.destroy
SkillDestroy_status(caller, pk, anon_status) ==
    IF ~IsAdminOrReadOnly_has_permission("DELETE", caller) THEN permission_denied(caller, anon_status)
    ELSE IF pk \notin DOMAIN skills THEN 404
    ELSE 204

SkillDestroy(caller, pk, anon_status) ==
    LET status == SkillDestroy_status(caller, pk, anon_status)
    IN  /\ skills' = IF status = 204 THEN Without(skills, {pk}) ELSE skills
        /\ resp' = Response("SkillDestroy", caller, pk, NoData, {}, status, None)
        /\ UNCHANGED <<users, projects, sample_works, categories, next_id, pending>>

\* SkillView.update (PUT) and partial_update (PATCH)
SkillUpdate_status(caller, pk, data, partial, anon_status) ==
    IF ~IsAdminOrReadOnly_has_permission(IF partial THEN "PATCH" ELSE "PUT", caller)
    THEN permission_denied(caller, anon_status)
    ELSE IF pk \notin DOMAIN skills THEN 404
    ELSE IF BadKey(data.category, categories, partial) THEN 400
    ELSE 200

SkillUpdate(caller, pk, data, partial, anon_status) ==
    LET status == SkillUpdate_status(caller, pk, data, partial, anon_status)
    IN  /\ skills' = IF status = 200
                     THEN [skills EXCEPT ![pk].category = Supplied(data.category, @)]
                     ELSE skills
        /\ resp' = Response(IF partial THEN "SkillPartialUpdate" ELSE "SkillUpdate",
                            caller, pk,
                            IF status = 200 THEN data ELSE NoData,
                            IF status = 400 THEN {"category"} ELSE {},
                            status, None)
        /\ UNCHANGED <<users, projects, sample_works, categories, next_id, pending>>

\* SkillView.list, retrieve and options
SkillRead_status(method, caller, pk, anon_status) ==
    IF ~IsAdminOrReadOnly_has_permission(method, caller)
    THEN permission_denied(caller, anon_status)
    ELSE IF method # "OPTIONS" /\ pk # None /\ pk \notin DOMAIN skills THEN 404
    ELSE 200

SkillRead(method, caller, pk, anon_status) ==
    /\ resp' = Response("Skill" \o method, caller, pk, NoData, {},
                        SkillRead_status(method, caller, pk, anon_status), None)
    /\ UNCHANGED <<users, projects, sample_works, categories, skills, next_id, pending>>

----------------------------------------------------------------------------
AnonStatus == {401, 403}

\* The answers to tell apart when permission is denied: the authentication
\* classes decide for an anonymous caller only.
AnonStatusFor(caller) == IF is_authenticated(caller) THEN {403} ELSE AnonStatus

\* The bodies to tell apart: a handler that answers before it reads
\* request.data (early # 0) takes the same step whatever the body.
Bodies(all, early) == IF early = 0 THEN all ELSE {CHOOSE data \in all : TRUE}

\* The requests of each view, whatever the caller, the query string and the body.
UserSignUp ==
    \/ \E caller \in Callers : \E data \in Bodies(UserData, UserPost_early(caller)) :
           UserPost(caller, data)
    \/ \E id \in UserIds : UserPostSetPassword(id)

UserAccount ==
    \/ \E caller \in Callers, user_id \in UserIds \cup {None} :
           \E data \in Bodies(UserData, UserPut_early(caller, user_id)) :
               UserPut(caller, user_id, data)
    \/ \E caller \in Callers, user_id \in UserIds \cup {None} : UserDelete(caller, user_id)
    \/ \E caller \in Callers : UserGet(caller)

\* The sign-ups and the updates that carry a phone_number.
UserPhone ==
    \/ \E caller \in Callers : \E data \in Bodies(UserPhoneData, UserPost_early(caller)) :
           UserPost(caller, data)
    \/ \E id \in UserIds : UserPostSetPassword(id)
    \/ \E caller \in Callers, user_id \in UserIds \cup {None} :
           \E data \in Bodies(UserPhoneData, UserPut_early(caller, user_id)) :
               UserPut(caller, user_id, data)

\* The updates of the three views.
PutRequest ==
    \/ \E caller \in Callers, project_id \in ProjectIds \cup {None} :
           \E data \in Bodies(ProjectData, ProjectsPut_early(caller, project_id)) :
               ProjectsPut(caller, project_id, data)
    \/ \E caller \in Callers, id \in SampleWorkIds \cup {None} :
           \E data \in Bodies(SampleWorkData, SampleWorkPut_early(caller, id)) :
               SampleWorkPut(caller, id, data)
    \/ \E caller \in Callers, user_id \in UserIds \cup {None} :
           \E data \in Bodies(UserPutData, UserPut_early(caller, user_id)) :
               UserPut(caller, user_id, data)

ProjectsRequest ==
    \/ \E caller \in Callers : \E data \in Bodies(ProjectData, ProjectsPost_early(caller)) :
           ProjectsPost(caller, data)
    \/ \E caller \in Callers, project_id \in ProjectIds \cup {None} :
           \E data \in Bodies(ProjectData, ProjectsPut_early(caller, project_id)) :
               ProjectsPut(caller, project_id, data)
    \/ \E caller \in Callers, project_id \in ProjectIds \cup {None} :
           ProjectsDelete(caller, project_id)

ProjectsList ==
    \E caller \in Callers, search \in QueryTexts \cup {AbsentStr, ""},
       name \in QueryTexts \cup {AbsentStr},
       category \in Keys(categories) \cup {None, NotANumber} :
        ProjectsGet(caller, search, name, category)

SampleWorkRequest ==
    \/ \E caller \in Callers : \E data \in Bodies(SampleWorkData, SampleWorkPost_early(caller)) :
           SampleWorkPost(caller, data)
    \/ \E caller \in Callers, id \in SampleWorkIds \cup {None} :
           \E data \in Bodies(SampleWorkData, SampleWorkPut_early(caller, id)) :
               SampleWorkPut(caller, id, data)
    \/ \E caller \in Callers, id \in SampleWorkIds \cup {None} : SampleWorkDelete(caller, id)

CategoryRequest ==
    \/ \E caller \in Callers, data \in CategoryData : \E a \in AnonStatusFor(caller) :
           CategoryCreate(caller, data, a)
    \/ \E caller \in Callers, pk \in CategoryIds : \E a \in AnonStatusFor(caller) :
           CategoryDestroy(caller, pk, a)

CategoryAccess ==
    \/ \E caller \in Callers, pk \in CategoryIds, data \in CategoryData,
          partial \in BOOLEAN : \E a \in AnonStatusFor(caller) :
           CategoryUpdate(caller, pk, data, partial, a)
    \/ \E method \in SAFE_METHODS, caller \in Callers, pk \in CategoryIds \cup {None} :
       \E a \in AnonStatusFor(caller) :
           CategoryRead(method, caller, pk, a)

SkillRequest ==
    \/ \E caller \in Callers, data \in SkillData : \E a \in AnonStatusFor(caller) :
           SkillCreate(caller, data, a)
    \/ \E caller \in Callers, pk \in SkillIds : \E a \in AnonStatusFor(caller) :
           SkillDestroy(caller, pk, a)

SkillAccess ==
    \/ \E caller \in Callers, pk \in SkillIds, data \in SkillData,
          partial \in BOOLEAN : \E a \in AnonStatusFor(caller) :
           SkillUpdate(caller, pk, data, partial, a)
    \/ \E method \in SAFE_METHODS, caller \in Callers, pk \in SkillIds \cup {None} :
       \E a \in AnonStatusFor(caller) :
           SkillRead(method, caller, pk, a)

\* Requests that write a row naming other rows (a project, its user and its
\* category) among requests that delete the rows named (a user, a category),
\* in any order.
StoreRequest ==
    \/ \E caller \in Callers, user_id \in UserIds \cup {None} : UserDelete(caller, user_id)
    \/ \E caller \in Callers : \E data \in Bodies(ProjectKeyData, ProjectsPost_early(caller)) :
           ProjectsPost(caller, data)
    \/ \E caller \in Callers, project_id \in ProjectIds \cup {None} :
           \E data \in Bodies(ProjectKeyData, ProjectsPut_early(caller, project_id)) :
               ProjectsPut(caller, project_id, data)
    \/ CategoryRequest

\* The requests of /users/, /projects/ and /sample-work/ with the bodies that
\* differ in the rows they name.
UserKeyRequest ==
    \/ \E caller \in Callers : \E data \in Bodies(UserKeyData, UserPost_early(caller)) :
           UserPost(caller, data)
    \/ \E id \in UserIds : UserPostSetPassword(id)
    \/ \E caller \in Callers, user_id \in UserIds \cup {None} :
           \E data \in Bodies(UserKeyPutData, UserPut_early(caller, user_id)) :
               UserPut(caller, user_id, data)
    \/ \E caller \in Callers, user_id \in UserIds \cup {None} : UserDelete(caller, user_id)
    \/ \E caller \in Callers : UserGet(caller)

ProjectsKeyRequest ==
    \/ \E caller \in Callers : \E data \in Bodies(ProjectKeyData, ProjectsPost_early(caller)) :
           ProjectsPost(caller, data)
    \/ \E caller \in Callers, project_id \in ProjectIds \cup {None} :
           \E data \in Bodies(ProjectKeyData, ProjectsPut_early(caller, project_id)) :
               ProjectsPut(caller, project_id, data)
    \/ \E caller \in Callers, project_id \in ProjectIds \cup {None} :
           ProjectsDelete(caller, project_id)

SampleWorkKeyRequest ==
    \/ \E caller \in Callers :
           \E data \in Bodies(SampleWorkKeyData, SampleWorkPost_early(caller)) :
               SampleWorkPost(caller, data)
    \/ \E caller \in Callers, id \in SampleWorkIds \cup {None} :
           \E data \in Bodies(SampleWorkKeyData, SampleWorkPut_early(caller, id)) :
               SampleWorkPut(caller, id, data)
    \/ \E caller \in Callers, id \in SampleWorkIds \cup {None} : SampleWorkDelete(caller, id)

\* The handlers of each of the three views.
UserOps == {"UserPost", "UserPut", "UserDelete", "UserGet"}
ProjectsOps == {"ProjectsPost", "ProjectsPut", "ProjectsDelete"}
SampleWorkOps == {"SampleWorkPost", "SampleWorkPut", "SampleWorkDelete"}

\* A run of requests that all go to one of the three views.
ViewSession ==
    \/ resp.op \in {"none"} \cup UserOps /\ UserKeyRequest
    \/ resp.op \in {"none"} \cup ProjectsOps /\ ProjectsKeyRequest
    \/ resp.op \in {"none"} \cup SampleWorkOps /\ SampleWorkKeyRequest

\* The whole application: any request of any view.
Next ==
    \/ UserSignUp
    \/ UserAccount
    \/ ProjectsRequest
    \/ SampleWorkRequest
    \/ CategoryRequest
    \/ SkillRequest
    \/ CategoryAccess
    \/ SkillAccess
    \/ ProjectsList
    \/ UserPhone
    \/ PutRequest
    \/ StoreRequest
    \/ UserKeyRequest
    \/ ProjectsKeyRequest
    \/ SampleWorkKeyRequest

Spec == Init /\ [][Next]_vars

\* The application one view at a time, the other tables as seeded.
SpecSignUp == InitSignUp /\ [][UserSignUp]_vars
SpecAccounts == InitAccounts /\ [][UserAccount]_vars
SpecPhone == InitPhone /\ [][UserPhone]_vars
SpecPut == InitPut /\ [][PutRequest]_vars
SpecStore == InitStore /\ [][StoreRequest]_vars
SpecViewSession == InitViewSession /\ [][ViewSession]_vars
SpecProjects == InitProjects /\ [][ProjectsRequest]_vars
SpecProjectsList == InitProjectsList /\ [][ProjectsList]_vars
SpecSampleWork == InitSampleWork /\ [][SampleWorkRequest]_vars
SpecCategory == InitCategory /\ [][CategoryRequest \/ SkillRequest]_vars
SpecCategoryAccess ==
    InitCategoryAccess
    /\ [][CategoryRequest \/ SkillRequest \/ CategoryAccess \/ SkillAccess]_vars

----------------------------------------------------------------------------
\* What the properties below read off a step: the request just served is
\* resp', the store before it the unprimed tables, the store after it the
\* primed ones.

\* The rows of a table that a step leaves alone.
SameRows(table_before, table_after, ids) ==
    \A i \in ids : i \in DOMAIN table_after /\ table_after[i] = table_before[i]

\* A step that adds one row to a table and leaves the others alone.
OneRowAdded(table_before, table_after, id) ==
    /\ id \notin DOMAIN table_before
    /\ DOMAIN table_after = DOMAIN table_before \cup {id}
    /\ SameRows(table_before, table_after, DOMAIN table_before)

----------------------------------------------------------------------------
C3_EmployerCreatesOwnProject ==
    [][(resp'.op = "ProjectsPost" /\ resp'.caller # None)
       => /\ users[resp'.caller].user_type = "employer"
             => /\ resp'.status \in {201, 400}
                /\ resp'.status = 400 => (resp'.errors # {} /\ projects' = projects)
                /\ resp'.status = 201
                   => /\ resp'.errors = {}
                      /\ OneRowAdded(projects, projects', resp'.pk)
                      /\ projects'[resp'.pk].user = resp'.caller
          /\ users[resp'.caller].user_type = "freelancer"
             => (resp'.status = 403 /\ projects' = projects)]_vars

\* C3 witness: an employer's POST that names another account as user has been
\* answered 201 and the new project is the caller's.
C3_Witness ==
    /\ resp.op = "ProjectsPost"
    /\ resp.status = 201
    /\ users[resp.caller].user_type = "employer"
    /\ resp.data.user # resp.caller
    /\ projects[resp.pk].user = resp.caller

\* C4 (the claim; the code breaks it): a POST on /projects/ by an
\* authenticated caller whose user_type is not employer creates no project.
C4_OnlyEmployersCreate ==
    [][(/\ resp'.op = "ProjectsPost"
        /\ resp'.caller # None
        /\ users[resp'.caller].user_type # "employer")
       => projects' = projects]_vars

\* C5: a sign-up by an authenticated caller answers 403 and creates no user;
\* by an anonymous caller it answers 400 only for a body with a field in
\* error, and else inserts exactly one user and answers 201 for that user,
\* no other user being added, removed or changed.
C5_SignUp ==
    [][resp'.op = "UserPost"
       => /\ resp'.caller # None => (resp'.status = 403 /\ users' = users)
          /\ resp'.caller = None
             => /\ resp'.status \in {0, 201, 400}
                /\ resp'.status = 400 => (resp'.errors # {} /\ users' = users)
                /\ resp'.status = 0 => OneRowAdded(users, users', resp'.pk)
                /\ resp'.status = 201
                   => /\ resp'.pk \in DOMAIN pending
                      /\ DOMAIN users' = DOMAIN users
                      /\ SameRows(users, users', DOMAIN users \ {resp'.pk})]_vars

\* C5 witness: a sign-up has been answered 201 and its user exists.
C5_Witness ==
    /\ resp.op = "UserPost"
    /\ resp.status = 201
    /\ resp.pk \in DOMAIN users
    /\ resp.pk \notin DOMAIN pending

\* C6 (the claim; the code breaks it): the password stored for a user created
\* by sign-up is never the plaintext the sign-up submitted, from the moment
\* the row exists.
C6_StoredPasswordNeverPlaintext ==
    /\ \A id \in DOMAIN pending : users[id].password # pending[id]
    /\ (resp.op = "UserPost" /\ resp.status = 201 /\ resp.pk \in DOMAIN users)
       => users[resp.pk].password # resp.data.password

\* C7 (as stated): PUT /users/?user_id=<id> by an authenticated caller answers
\* 200 and updates the caller's row when id is the caller's and the body is
\* valid, and answers 403 for any other id; no other user's row changes.
C7_OwnId200ElseForbidden ==
    [][(resp'.op = "UserPut" /\ resp'.caller # None /\ resp'.id # None)
       => /\ resp'.id = resp'.caller
             => /\ resp'.status \in {200, 400}
                /\ resp'.status = 400 => (resp'.errors # {} /\ users' = users)
                /\ resp'.status = 200
                   => users'[resp'.caller] =
                          UserSerializer_update(users[resp'.caller], resp'.data)
          /\ resp'.id # resp'.caller => resp'.status = 403
          /\ DOMAIN users' = DOMAIN users
          /\ SameRows(users, users', DOMAIN users \ {resp'.caller})]_vars

\* C7 (amended): ... and answers 403 for the id of any other existing user and
\* 404 for an id that no user has; no other user's row changes.
C7_OwnId200Other403Missing404 ==
    [][(resp'.op = "UserPut" /\ resp'.caller # None /\ resp'.id # None)
       => /\ resp'.id = resp'.caller
             => /\ resp'.status \in {200, 400}
                /\ resp'.status = 400 => (resp'.errors # {} /\ users' = users)
                /\ resp'.status = 200
                   => users'[resp'.caller] =
                          UserSerializer_update(users[resp'.caller], resp'.data)
          /\ (resp'.id # resp'.caller /\ resp'.id \in DOMAIN users) => resp'.status = 403
          /\ resp'.id \notin DOMAIN users => resp'.status = 404
          /\ DOMAIN users' = DOMAIN users
          /\ SameRows(users, users', DOMAIN users \ {resp'.caller})]_vars

\* C7 witness: a caller's PUT on its own id has been answered 200 and the row
\* holds the user_type the body sent.
C7_Witness ==
    /\ resp.op = "UserPut"
    /\ resp.status = 200
    /\ resp.id = resp.caller
    /\ resp.data.user_type = "employer"
    /\ users[resp.caller].user_type = "employer"
    /\ resp.caller = 2

\* C8: DELETE /users/?user_id=<id> by an authenticated caller removes a user
\* only when id is the caller's own, and then exactly the caller; the id of
\* another existing user answers 403 and an id that no user has 404, and
\* nothing is deleted.
C8_DeleteOnlyOwnAccount ==
    [][(resp'.op = "UserDelete" /\ resp'.caller # None /\ resp'.id # None)
       => /\ resp'.id = resp'.caller
             => (resp'.status = 204 /\ DOMAIN users' = DOMAIN users \ {resp'.caller})
          /\ (resp'.id # resp'.caller /\ resp'.id \in DOMAIN users)
             => (resp'.status = 403 /\ users' = users)
          /\ resp'.id \notin DOMAIN users => (resp'.status = 404 /\ users' = users)
          /\ SameRows(users, users', DOMAIN users \ {resp'.caller})]_vars

\* C8 witness: a caller has deleted its own account; it is gone and another
\* account is still there.
C8_Witness ==
    /\ resp.op = "UserDelete"
    /\ resp.status = 204
    /\ resp.id = resp.caller
    /\ resp.caller \notin DOMAIN users
    /\ DOMAIN users # {}

\* C9 (as stated): a category deletion by a staff caller on an existing
\* category takes effect: afterwards the category is gone, and so is every
\* skill and every project that referenced it.
C9_CategoryDeleteCascades ==
    [][(/\ resp'.op = "CategoryDestroy"
        /\ resp'.caller # None
        /\ users[resp'.caller].is_staff
        /\ resp'.id \in DOMAIN categories)
       => /\ resp'.id \notin DOMAIN categories'
          /\ \A k \in DOMAIN skills' : skills'[k].category # resp'.id
          /\ \A p \in DOMAIN projects' : projects'[p].category # resp'.id]_vars

\* C9 (amended): ... on an existing category that no user's category field
\* references takes effect (204): afterwards the category is gone, and so is
\* every skill and every project that referenced it.
C9_UnreferencedCategoryDeleteCascades ==
    [][(/\ resp'.op = "CategoryDestroy"
        /\ resp'.caller # None
        /\ users[resp'.caller].is_staff
        /\ resp'.id \in DOMAIN categories
        /\ \A u \in DOMAIN users : users[u].category # resp'.id)
       => /\ resp'.status = 204
          /\ resp'.id \notin DOMAIN categories'
          /\ \A k \in DOMAIN skills' : skills'[k].category # resp'.id
          /\ \A p \in DOMAIN projects' : projects'[p].category # resp'.id]_vars

\* C9 witness: the staff account has deleted category 1, which had a skill
\* and two projects; none of them is left.
C9_Witness ==
    /\ resp.op = "CategoryDestroy"
    /\ resp.status = 204
    /\ resp.id = 1
    /\ 1 \notin DOMAIN categories
    /\ DOMAIN projects = {}
    /\ 1 \notin DOMAIN skills

\* C10: after a user deletes their own account no project and no sample work
\* of that user exists, and every project and sample work of another user is
\* there and unchanged.
C10_UserDeleteCascades ==
    [][(resp'.op = "UserDelete" /\ resp'.status = 204)
       => /\ \A p \in DOMAIN projects' : projects'[p].user # resp'.caller
          /\ \A w \in DOMAIN sample_works' : sample_works'[w].user # resp'.caller
          /\ DOMAIN projects' \subseteq DOMAIN projects
          /\ DOMAIN sample_works' \subseteq DOMAIN sample_works
          /\ SameRows(projects, projects',
                      {p \in DOMAIN projects : projects[p].user # resp'.caller})
          /\ SameRows(sample_works, sample_works',
                      {w \in DOMAIN sample_works : sample_works[w].user # resp'.caller})]_vars

\* C10 witness: account 1 has deleted itself; its project and its sample work
\* are gone, those of account 2 are there.
C10_Witness ==
    /\ resp.op = "UserDelete"
    /\ resp.status = 204
    /\ resp.caller = 1
    /\ DOMAIN projects = {2}
    /\ DOMAIN sample_works = {1}

\* The requests of the category and skill endpoints, by the kind of their method.
CategorySkillReads ==
    {view \o method : view \in {"Category", "Skill"}, method \in SAFE_METHODS}

CategorySkillWrites ==
    {view \o action : view \in {"Category", "Skill"},
                      action \in {"Create", "Update", "PartialUpdate", "Destroy"}}

\* C11: on the category and skill endpoints a request of a safe method (GET,
\* HEAD, OPTIONS) is never refused (no 401, no 403), whoever calls; a write
\* (POST, PUT, PATCH, DELETE) is refused exactly when the caller is not staff,
\* and a refused write leaves the categories and the skills as they were.
C11_ReadOpenWriteStaffOnly ==
    [][/\ resp'.op \in CategorySkillReads
          => (resp'.status \notin {401, 403} /\ categories' = categories /\ skills' = skills)
       /\ resp'.op \in CategorySkillWrites
          => /\ resp'.status \in {401, 403}
                <=> ~(resp'.caller # None /\ users[resp'.caller].is_staff)
             /\ ~(resp'.caller # None /\ users[resp'.caller].is_staff)
                => (categories' = categories /\ skills' = skills)]_vars

\* C11 witness: an account that is not staff has asked to delete a category
\* that exists, was answered 403, and the category is there.
C11_Witness ==
    /\ resp.op = "CategoryDestroy"
    /\ resp.status = 403
    /\ resp.caller # None
    /\ ~users[resp.caller].is_staff
    /\ resp.id \in DOMAIN categories

\* The handlers that require authentication.
AuthenticatedHandlers ==
    {"ProjectsPost", "ProjectsPut", "ProjectsDelete",
     "SampleWorkPost", "SampleWorkPut", "SampleWorkDelete",
     "UserGet", "UserPut", "UserDelete"}

\* C12 (the claim; the code breaks it): every handler that requires
\* authentication answers an anonymous caller with 401, whatever the query
\* string and the body, and changes nothing.
C12_UnauthenticatedAnswers401 ==
    [][(resp'.op \in AuthenticatedHandlers /\ resp'.caller = None)
       => (/\ resp'.status = 401
           /\ UNCHANGED <<users, projects, sample_works, categories, skills>>)]_vars

\* C13: a DELETE on /projects/ by an authenticated caller whose user_type is
\* not employer answers 403 and deletes nothing, whether the caller owns the
\* project or not and whether project_id is sent or not.
C13_NonEmployerDelete403 ==
    [][(/\ resp'.op = "ProjectsDelete"
        /\ resp'.caller # None
        /\ users[resp'.caller].user_type # "employer")
       => (resp'.status = 403 /\ projects' = projects)]_vars

\* C13 witness: a caller who is not an employer has asked to delete a project
\* it owns, was answered 403, and the project is there.
C13_Witness ==
    /\ resp.op = "ProjectsDelete"
    /\ resp.status = 403
    /\ resp.caller # None
    /\ users[resp.caller].user_type # "employer"
    /\ resp.id \in DOMAIN projects
    /\ projects[resp.id].user = resp.caller

\* C14 (the claim; the code breaks it): a PUT on /projects/ by a caller whose
\* user_type is not employer at the time of the request modifies no project.
C14_OnlyEmployersUpdate ==
    [][(/\ resp'.op = "ProjectsPut"
        /\ resp'.caller # None
        /\ users[resp'.caller].user_type # "employer")
       => projects' = projects]_vars

\* C15: a POST or a DELETE on /sample-work/ by an authenticated caller whose
\* user_type is not freelancer answers 403 and leaves the sample works as they
\* were; a POST by a freelancer answers 201 unless the body has a field in
\* error, and then adds exactly one sample work, owned by the caller.
C15_FreelancerGate ==
    [][(resp'.op \in {"SampleWorkPost", "SampleWorkDelete"} /\ resp'.caller # None)
       => /\ users[resp'.caller].user_type # "freelancer"
             => (resp'.status = 403 /\ sample_works' = sample_works)
          /\ (users[resp'.caller].user_type = "freelancer" /\ resp'.op = "SampleWorkPost")
             => /\ resp'.status \in {201, 400}
                /\ resp'.status = 400 => (resp'.errors # {} /\ sample_works' = sample_works)
                /\ resp'.status = 201
                   => /\ resp'.errors = {}
                      /\ OneRowAdded(sample_works, sample_works', resp'.pk)
                      /\ sample_works'[resp'.pk].user = resp'.caller]_vars

\* C15 witness: an account whose user_type is unset has posted a valid sample
\* work and was answered 403.
C15_Witness ==
    /\ resp.op = "SampleWorkPost"
    /\ resp.status = 403
    /\ resp.caller # None
    /\ users[resp.caller].user_type = Null

C17_WritesAtomic ==
    \A id \in DOMAIN users : id \notin DOMAIN pending

\* C18: in every reachable state, however sign-ups and updates of users
\* interleave, no two users have the same phone_number that is not null.
C18_PhoneNumberUnique ==
    \A u, v \in DOMAIN users :
        (u # v /\ users[u].phone_number # Null)
        => users[u].phone_number # users[v].phone_number

\* C18 witness: two users hold phone numbers, and a request that passed the
\* validator while another request took its number was stopped by the store.
C18_Witness ==
    /\ resp.op \in {"UserPost", "UserPut"}
    /\ resp.status = 500
    /\ \E u, v \in DOMAIN users :
           /\ u # v
           /\ users[u].phone_number \in Phones
           /\ users[v].phone_number \in Phones

\* C19: a PUT on /projects/, /sample-work/ or /users/ that succeeds leaves
\* every field of the record that the body does not carry as it was, and
\* every other record as it was.
C19_PutIsPartial ==
    [][resp'.status = 200
       => /\ resp'.op = "ProjectsPut"
             => /\ resp'.data.user = Absent
                   => projects'[resp'.id].user = projects[resp'.id].user
                /\ resp'.data.name = AbsentStr
                   => projects'[resp'.id].name = projects[resp'.id].name
                /\ resp'.data.category = Absent
                   => projects'[resp'.id].category = projects[resp'.id].category
                /\ DOMAIN projects' = DOMAIN projects
                /\ SameRows(projects, projects', DOMAIN projects \ {resp'.id})
                /\ UNCHANGED <<users, sample_works, categories, skills>>
          /\ resp'.op = "SampleWorkPut"
             => /\ resp'.data.user = Absent
                   => sample_works'[resp'.id].user = sample_works[resp'.id].user
                /\ resp'.data.name = AbsentStr
                   => sample_works'[resp'.id].name = sample_works[resp'.id].name
                /\ DOMAIN sample_works' = DOMAIN sample_works
                /\ SameRows(sample_works, sample_works', DOMAIN sample_works \ {resp'.id})
                /\ UNCHANGED <<users, projects, categories, skills>>
          /\ resp'.op = "UserPut"
             => /\ resp'.data.password = AbsentStr
                   => users'[resp'.id].password = users[resp'.id].password
                /\ resp'.data.user_type = AbsentStr
                   => users'[resp'.id].user_type = users[resp'.id].user_type
                /\ resp'.data.category = Absent
                   => users'[resp'.id].category = users[resp'.id].category
                /\ resp'.data.phone_number = AbsentStr
                   => users'[resp'.id].phone_number = users[resp'.id].phone_number
                /\ users'[resp'.id].is_staff = users[resp'.id].is_staff
                /\ DOMAIN users' = DOMAIN users
                /\ SameRows(users, users', DOMAIN users \ {resp'.id})
                /\ UNCHANGED <<projects, sample_works, categories, skills>>]_vars

\* C19 witness: a PUT that carries a name and nothing else has renamed
\* project 1, whose category is the one it had.
C19_Witness ==
    /\ resp.op = "ProjectsPut"
    /\ resp.status = 200
    /\ resp.id = 1
    /\ resp.data = [user |-> Absent, name |-> "App", category |-> Absent]
    /\ projects[1].name = "App"
    /\ projects[1].category = 1

\* C20 (the claim; the code breaks it): a PUT on /projects/ or /sample-work/
\* that succeeds leaves the owner of the record as it was, whatever the body
\* carries.
C20_OwnerNeverChanges ==
    [][resp'.status = 200
       => /\ resp'.op = "ProjectsPut"
             => projects'[resp'.id].user = projects[resp'.id].user
          /\ resp'.op = "SampleWorkPut"
             => sample_works'[resp'.id].user = sample_works[resp'.id].user]_vars

\* C21 (the claim; the code breaks it): in every reachable state no user's
\* stored password is a password as a request submitted it, a PUT on /users/
\* that carries a password included.
C21_NoStoredPlaintext ==
    \A u \in DOMAIN users : users[u].password \notin Passwords

\* C22: a DELETE of a category that some user's category field references is
\* refused (it is not answered 204) and removes nothing: the category, the
\* skills and the projects that reference it and the users are all as they
\* were.
C22_ProtectedCategoryKept ==
    [][(/\ resp'.op = "CategoryDestroy"
        /\ resp'.id \in DOMAIN categories
        /\ \E u \in DOMAIN users : users[u].category = resp'.id)
       => /\ resp'.status \in {401, 403, 500}
          /\ categories' = categories
          /\ skills' = skills
          /\ projects' = projects
          /\ users' = users]_vars

\* C22 witness: the staff account has asked to delete a category that a user
\* is in and that a skill and a project reference; the request failed and
\* they are all there.
C22_Witness ==
    /\ resp.op = "CategoryDestroy"
    /\ resp.status = 500
    /\ resp.id \in DOMAIN categories
    /\ \E u \in DOMAIN users : users[u].category = resp.id
    /\ \E k \in DOMAIN skills : skills[k].category = resp.id
    /\ \E q \in DOMAIN projects : projects[q].category = resp.id

\* C23: in every reachable state, whatever the order of the creates, updates
\* and deletes, every skill and every project names a category that exists,
\* every project and every sample work names a user that exists, and the
\* category of every user, when it is set, exists.
C23_ReferentialIntegrity ==
    /\ \A k \in DOMAIN skills : skills[k].category \in DOMAIN categories
    /\ \A q \in DOMAIN projects :
           /\ projects[q].category \in DOMAIN categories
           /\ projects[q].user \in DOMAIN users
    /\ \A w \in DOMAIN sample_works : sample_works[w].user \in DOMAIN users
    /\ \A u \in DOMAIN users :
           users[u].category # None => users[u].category \in DOMAIN categories

\* C23 witness: category 1, which a user was in and a skill and a project
\* named, has been deleted, and a project of another category is there.
C23_Witness ==
    /\ resp.op = "CategoryDestroy"
    /\ resp.status = 204
    /\ resp.id = 1
    /\ 1 \notin DOMAIN categories
    /\ DOMAIN skills = {}
    /\ DOMAIN projects # {}

\* C24: a request on /projects/, /sample-work/ or /users/ that is answered
\* 400, 401, 403 or 404 leaves every table as it was.
C24_RefusedRequestChangesNothing ==
    [][(/\ resp'.op \in UserOps \cup ProjectsOps \cup SampleWorkOps
        /\ resp'.status \in {400, 401, 403, 404})
       => UNCHANGED <<users, projects, sample_works, categories, skills>>]_vars

\* C24 witness: the owner's PUT on a project with a body that names a row
\* that does not exist has been answered 400.
C24_Witness ==
    /\ resp.op = "ProjectsPut"
    /\ resp.status = 400
    /\ resp.errors # {}
    /\ resp.id \in DOMAIN projects
    /\ projects[resp.id].user = resp.caller

====
